---------------------------- MODULE Spec2Model ----------------------------
(***************************************************************************)
(* extract-metadata (src/main.rs): a command-line tool that reads the      *)
(* header of SWF files and writes, next to each input, a file holding the  *)
(* stage size, the frame count and the frame rate as JSON, YAML or text.   *)
(*                                                                         *)
(* Paths and format selectors are sequences of one-character strings, so   *)
(* that std::path's extension rules and str::to_lowercase are computed     *)
(* character by character.  Format selectors hold no path separator.       *)
(***************************************************************************)
EXTENDS Integers, Sequences, FiniteSets, TLC

VARIABLES
    input,      \* args.input
    format,     \* args.format
    verbose,    \* args.verbose
    fs,         \* the file system: path -> node
    fs0,        \* the file system when the process started
    pc,         \* where the process is: start, walk_root, walk, done, panicked, exit1
    stack,      \* WalkDir's stack of opened directories, each with the entries not yet yielded
    yielded,    \* history: the entries WalkDir has yielded
    swf_count,  \* process_directory's counter
    stdout,     \* lines printed with println!
    stderr,     \* lines printed with eprintln!
    attempts,   \* history: the calls of extract_metadata, each with its result
    writes,     \* history: the calls of save_metadata, each with its result
    hdr,        \* the header handed to the metadata construction (function-level runs)
    meta,       \* the Metadata record built (function-level runs)
    out         \* the formatter's result (function-level runs)

vars == <<input, format, verbose, fs, fs0, pc, stack, yielded, swf_count, stdout, stderr,
          attempts, writes, hdr, meta, out>>

-----------------------------------------------------------------------------
(* Bounds of the model *)

\* the largest number of entries the input directory tree holds at the start
MaxEntries == 3

-----------------------------------------------------------------------------
(* Characters and strings *)

\* char::to_lowercase on the letters the model's names use
ToLowerChar(c) ==
    CASE c = "S" -> "s"
      [] c = "W" -> "w"
      [] c = "F" -> "f"
      [] c = "J" -> "j"
      [] c = "O" -> "o"
      [] c = "N" -> "n"
      [] OTHER -> c

\* str::to_lowercase
ToLowercase(s) == [i \in 1..Len(s) |-> ToLowerChar(s[i])]

\* the position of the last c in s at or before i, 0 when there is none
RECURSIVE LastIndexUpTo(_, _, _)
LastIndexUpTo(s, c, i) ==
    IF i = 0 THEN 0 ELSE IF s[i] = c THEN i ELSE LastIndexUpTo(s, c, i - 1)

\* the position of the last c in s, 0 when s holds none
LastIndexOf(s, c) == LastIndexUpTo(s, c, Len(s))

\* the text of a character sequence, as Display prints it
RECURSIVE Text(_)
Text(s) == IF s = <<>> THEN "" ELSE s[1] \o Text(Tail(s))

\* Option<OsStr>
None == [some |-> FALSE, v |-> <<>>]
Some(x) == [some |-> TRUE, v |-> x]

-----------------------------------------------------------------------------
(* std::path::Path, as main.rs uses it *)

\* the index where the final component starts
FileNameStart(p) == LastIndexOf(p, "/") + 1

\* Path::file_name
FileName(p) == SubSeq(p, FileNameStart(p), Len(p))

\* Path::parent
Parent(p) == SubSeq(p, 1, LastIndexOf(p, "/") - 1)

\* Path::extension: the part of the file name after its last dot; none when the
\* name holds no dot, or only a leading one
Extension(p) ==
    LET name == FileName(p)
        d == LastIndexOf(name, ".")
    IN  IF name = <<>> \/ name = <<".", ".">> \/ d <= 1
        THEN None
        ELSE Some(SubSeq(name, d + 1, Len(name)))

\* Path::file_stem: the file name without its extension
FileStem(p) ==
    LET name == FileName(p)
        d == LastIndexOf(name, ".")
    IN  IF name = <<>> THEN None
        ELSE IF name = <<".", ".">> \/ d <= 1 THEN Some(name)
        ELSE Some(SubSeq(name, 1, d - 1))

\* a mutant of WithExtension: the extension is appended to the whole file name
WithExtensionAppend(p, ext) ==
    IF FileStem(p).some /\ ext # <<>> THEN p \o <<".">> \o ext ELSE p

\* Path::with_extension: the path cut after the file stem, then a dot and the
\* new extension (unless that is empty); a path with no file name is unchanged
WithExtension(p, ext) ==
    LET stem == FileStem(p)
    IN  IF ~stem.some THEN p
        ELSE LET base == SubSeq(p, 1, FileNameStart(p) - 1 + Len(stem.v))
             IN  IF ext = <<>> THEN base ELSE base \o <<".">> \o ext

\* format!("swf.{}", format)
SwfDot(f) == <<"s", "w", "f", ".">> \o f

\* the output path main and process_directory derive from an input path
OutputPath(p, f) == WithExtension(p, SwfDot(f))

-----------------------------------------------------------------------------
(* extract_metadata: from the parsed header to the Metadata record *)

\* the header fields main.rs reads: the stage rectangle in twips (signed), the
\* frame count (u16) and the frame rate as the bits of an 8.8 fixed-point number
Header(x_min, x_max, y_min, y_max, frames, rate) ==
    [x_min |-> x_min, x_max |-> x_max, y_min |-> y_min, y_max |-> y_max,
     num_frames |-> frames, rate_bits |-> rate]

NoHeader == Header(0, 0, 0, 0, 0, 0)

\* Twips::to_pixels followed by the float's truncation toward zero
TruncPixels(t) == IF t >= 0 THEN t \div 20 ELSE -((-t) \div 20)

\* `as u32` from a float: a negative value becomes 0 (the quotient of a twip
\* difference never reaches u32::MAX)
SaturateU32(v) == IF v < 0 THEN 0 ELSE v

\* a mutant of StageComponent: the quotient is rounded to the nearest integer
StageComponentRounded(max, min) == SaturateU32(TruncPixels((max - min) + 10))

\* (max - min).to_pixels() as u32
StageComponent(max, min) == SaturateU32(TruncPixels(max - min))

\* frame_rate().to_f32() as u32
FrameRateU32(bits) == SaturateU32(IF bits >= 0 THEN bits \div 256 ELSE -((-bits) \div 256))

\* the Metadata record extract_metadata builds
BuildMetadata(file_name, h) ==
    [file_name |-> file_name,
     stage_size |-> <<StageComponent(h.x_max, h.x_min), StageComponent(h.y_max, h.y_min)>>,
     no_of_frames |-> h.num_frames,
     frame_rate |-> FrameRateU32(h.rate_bits)]

NoMetadata == [file_name |-> <<>>, stage_size |-> <<0, 0>>, no_of_frames |-> 0, frame_rate |-> 0]

-----------------------------------------------------------------------------
(* format_metadata: the output as the sequence of its pieces *)

JsonSel == <<"j", "s", "o", "n">>
YamlSel == <<"y", "a", "m", "l">>

\* serde_json::to_string of Metadata
JsonEncoding(m) ==
    <<"{", "\"file_name\":", "\"" \o Text(m.file_name) \o "\"", ",",
      "\"stage_size\":", "[" \o ToString(m.stage_size[1]) \o "," \o ToString(m.stage_size[2]) \o "]", ",",
      "\"no_of_frames\":", ToString(m.no_of_frames), ",",
      "\"frame_rate\":", ToString(m.frame_rate), "}">>

\* serde_yaml::to_string of Metadata
YamlEncoding(m) ==
    <<"file_name: ", Text(m.file_name), "\n",
      "stage_size:", "\n", "- ", ToString(m.stage_size[1]), "\n", "- ", ToString(m.stage_size[2]), "\n",
      "no_of_frames: ", ToString(m.no_of_frames), "\n",
      "frame_rate: ", ToString(m.frame_rate), "\n">>

\* the format! of the else branch
TextLayout(m) ==
    <<"File: ", Text(m.file_name), "\n",
      "Stage Size: ", "(" \o ToString(m.stage_size[1]) \o ", " \o ToString(m.stage_size[2]) \o ")", "\n",
      "Number of Frames: ", ToString(m.no_of_frames), "\n",
      "Frame Rate: ", ToString(m.frame_rate)>>

\* a mutant of FormatMetadata: the selector is compared without regard to case
FormatMetadataAnyCase(m, f) ==
    IF ToLowercase(f) = JsonSel THEN JsonEncoding(m)
    ELSE IF ToLowercase(f) = YamlSel THEN YamlEncoding(m)
    ELSE TextLayout(m)

FormatMetadata(m, f) ==
    IF f = JsonSel THEN JsonEncoding(m)
    ELSE IF f = YamlSel THEN YamlEncoding(m)
    ELSE TextLayout(m)

-----------------------------------------------------------------------------
(* The file system *)

Root == <<"r">>
In(dir, name) == dir \o <<"/">> \o name

A_swf    == In(Root, <<"a", ".", "s", "w", "f">>)
A_SWF    == In(Root, <<"a", ".", "S", "W", "F">>)
A_swfx   == In(Root, <<"a", ".", "s", "w", "f", "x">>)
A_noext  == In(Root, <<"a">>)
Pipe     == In(Root, <<"p", ".", "s", "w", "f">>)
SubDir   == In(Root, <<"x", ".", "s", "w", "f">>)
B_SwF    == In(SubDir, <<"b", ".", "S", "w", "F">>)

\* the entries the input tree may hold at the start: regular files, a FIFO
\* named like a SWF file, a directory named like a SWF file and a file in it
CandidateFiles == {A_swf, A_SWF, A_swfx, A_noext, B_SwF}
Candidates == CandidateFiles \cup {Pipe, SubDir}

\* the header of the valid SWF files of the tree: 800 x 600 pixels, 100 frames, 30 fps
TreeHeader == Header(0, 16000, 0, 12000, 100, 7680)

DirNode == [kind |-> "dir", data |-> "none", hdr |-> NoHeader, text |-> <<>>, complete |-> TRUE]
SpecialNode == [kind |-> "special", data |-> "none", hdr |-> NoHeader, text |-> <<>>, complete |-> TRUE]
SwfNode(h) == [kind |-> "file", data |-> "swf", hdr |-> h, text |-> <<>>, complete |-> TRUE]
CorruptNode == [kind |-> "file", data |-> "corrupt", hdr |-> NoHeader, text |-> <<>>, complete |-> TRUE]
\* a file the tool wrote: the whole of `content`, or (a failed write) a strict prefix of it
TextNode(content, complete) ==
    [kind |-> "file", data |-> "text", hdr |-> NoHeader, text |-> content, complete |-> complete]

Exists(f, p) == p \in DOMAIN f
IsFile(f, p) == Exists(f, p) /\ f[p].kind = "file"
IsDir(f, p) == Exists(f, p) /\ f[p].kind = "dir"

\* the entries read_dir lists for a directory
Children(f, dir) == {p \in DOMAIN f : p # Root /\ Parent(p) = dir}

\* f with path p bound to node n
Bind(f, p, n) == [q \in DOMAIN f \cup {p} |-> IF q = p THEN n ELSE f[q]]

-----------------------------------------------------------------------------
(* Output lines and the history records *)

Line(msg, path, n) == [msg |-> msg, path |-> path, n |-> n]

\* a call of extract_metadata: the file, whether it returned, and what it returned
Attempt(path, result, output) == [path |-> path, result |-> result, output |-> output]

\* a call of save_metadata: the input it was made for, its arguments, its outcome
WriteRec(src, path, content, io) == [src |-> src, path |-> path, content |-> content, io |-> io]

\* how extract_metadata can end on a file: its four unwraps panic on a file that
\* cannot be opened, decompressed or parsed; a valid file can still fail to open
ExtractOutcomes(node) == IF node.data = "swf" THEN {"ok", "fail"} ELSE {"fail"}

\* extract_metadata's return value on a file that parses
ExtractOutput(path, node, f) == FormatMetadata(BuildMetadata(path, node.hdr), f)

\* how save_metadata can end: File::create fails, write_all fails, or both succeed
SaveOutcomes(f, path) ==
    IF Exists(f, path) /\ ~IsFile(f, path) THEN {"create_fail"}
    ELSE {"ok", "create_fail", "write_fail"}

\* save_metadata's effect on the file system: File::create truncates or creates
\* the file, write_all fills it
FsAfterSave(f, path, content, io) ==
    CASE io = "create_fail" -> f
      [] io = "write_fail" -> Bind(f, path, TextNode(content, FALSE))
      [] OTHER -> Bind(f, path, TextNode(content, TRUE))

\* save_metadata's lines on the error stream
ErrAfterSave(err, path, io, v) ==
    CASE io = "create_fail" -> Append(err, Line("Error creating file", path, 0))
      [] io = "write_fail" -> Append(err, Line("Error writing to", path, 0))
      [] OTHER -> IF v THEN Append(err, Line("Saved metadata to", path, 0)) ELSE err

\* the lines main prints first when verbose
Banner(v) ==
    IF v THEN <<Line("Input path", input, 0), Line("Format", format, 0)>> ELSE <<>>

\* a line printed only when verbose
IfVerbose(v, line) == IF v THEN <<line>> ELSE <<>>

-----------------------------------------------------------------------------
(* process_directory's decisions *)

SwfExt == <<"s", "w", "f">>

\* a mutant of Selected: the extension is compared as written
SelectedCaseSensitive(f, p) ==
    IsFile(f, p) /\ \E ext \in {Extension(p)} : ext.some /\ ext.v = SwfExt

\* the filter of the loop: a regular file whose extension, lowercased, is swf
Selected(f, p) ==
    IsFile(f, p) /\ \E ext \in {Extension(p)} : ext.some /\ ToLowercase(ext.v) = SwfExt

\* a mutant of Panics: the unwraps never panic
PanicsNever(res) == FALSE

\* whether one of extract_metadata's unwraps panics
Panics(res) == res = "fail"

\* a mutant of CountAfter: only the files that were extracted are counted
CountAfterSuccess(count, res) == IF res = "ok" THEN count + 1 ELSE count

\* swf_count after a selected file: it is incremented before the extraction
CountAfter(count, res) == count + 1

\* a mutant of SavedInBatch: save_metadata is called in both arms
SavedInBatchAlways(res) == TRUE

\* the arm of the match on catch_unwind that calls save_metadata
SavedInBatch(res) == ~Panics(res)

\* a mutant of PcAfterFile: the panic is not caught and ends the process
PcAfterFileUncaught(res) == IF Panics(res) THEN "panicked" ELSE "walk"

\* where the loop is after a selected file: both arms of the match fall through
\* to the next iteration
PcAfterFile(res) == "walk"

\* WalkDir's stack without the directories whose entries are all yielded
RECURSIVE Trim(_)
Trim(st) ==
    IF st = <<>> THEN <<>>
    ELSE IF st[Len(st)].pending = {} THEN Trim(SubSeq(st, 1, Len(st) - 1))
    ELSE st

Opened(f, dir) == [dir |-> dir, pending |-> Children(f, dir)]

\* st with entry e taken from, or added to, its top directory
TopWithout(st, e) == [st EXCEPT ![Len(st)].pending = @ \ {e}]
TopWith(st, e) == [st EXCEPT ![Len(st)].pending = @ \cup {e}]

-----------------------------------------------------------------------------
(* The process *)

\* the initial trees: at most MaxEntries entries, each in a directory that exists
Trees ==
    {S \in SUBSET Candidates :
        /\ Cardinality(S) <= MaxEntries
        /\ \A p \in S : Parent(p) = Root \/ Parent(p) \in S}

FileNodes == {SwfNode(TreeHeader), CorruptNode}

NodeOf(p, content) ==
    IF p = Root \/ p = SubDir THEN DirNode
    ELSE IF p = Pipe THEN SpecialNode
    ELSE content[p]

Formats == {JsonSel, YamlSel, <<"x", "m", "l">>, SwfExt}

Init ==
    /\ \E S \in Trees : \E content \in [S \cap CandidateFiles -> FileNodes] :
          fs = [p \in S \cup {Root} |-> NodeOf(p, content)]
    /\ fs0 = fs
    /\ input \in {Root} \cup Candidates
    /\ format \in Formats
    /\ verbose \in BOOLEAN
    /\ pc = "start"
    /\ stack = <<>>
    /\ yielded = {}
    /\ swf_count = 0
    /\ stdout = <<>>
    /\ stderr = <<>>
    /\ attempts = <<>>
    /\ writes = <<>>
    /\ hdr = NoHeader
    /\ meta = NoMetadata
    /\ out = <<>>

FnVars == <<hdr, meta, out>>
ArgVars == <<input, format, verbose, fs0>>

\* main, the input path cannot be read: the expect panics
MainMissing ==
    /\ pc = "start"
    /\ ~Exists(fs, input)
    /\ stderr' = stderr \o Banner(verbose)
    /\ pc' = "panicked"
    /\ UNCHANGED <<ArgVars, FnVars, fs, stack, yielded, swf_count, stdout, attempts, writes>>

\* main, the input is neither a file nor a directory: exit(1)
MainOther ==
    /\ pc = "start"
    /\ Exists(fs, input) /\ ~IsFile(fs, input) /\ ~IsDir(fs, input)
    /\ stderr' = stderr \o Banner(verbose)
                   \o <<Line("Error: Input path is neither a file nor a directory", <<>>, 0)>>
    /\ pc' = "exit1"
    /\ UNCHANGED <<ArgVars, FnVars, fs, stack, yielded, swf_count, stdout, attempts, writes>>

\* main, the input is a regular file: extract_metadata, then save_metadata
MainSingleFile ==
    /\ pc = "start"
    /\ IsFile(fs, input)
    /\ \E res \in ExtractOutcomes(fs[input]) :
         LET content == IF res = "ok" THEN ExtractOutput(input, fs[input], format) ELSE <<>>
             path == OutputPath(input, format)
             err == stderr \o Banner(verbose)
                      \o IfVerbose(verbose, Line("Processing single file...", <<>>, 0))
         IN  /\ stdout' = Append(stdout, Line("Extracting metadata from", input, 0))
             /\ attempts' = Append(attempts, Attempt(input, res, content))
             /\ IF Panics(res)
                THEN /\ pc' = "panicked"
                     /\ stderr' = err
                     /\ UNCHANGED <<fs, writes>>
                ELSE \E io \in SaveOutcomes(fs, path) :
                     /\ fs' = FsAfterSave(fs, path, content, io)
                     /\ stderr' = ErrAfterSave(err, path, io, verbose)
                     /\ writes' = Append(writes, WriteRec(input, path, content, io))
                     /\ pc' = "done"
    /\ UNCHANGED <<ArgVars, FnVars, stack, yielded, swf_count>>

\* main, the input is a directory: process_directory is entered
MainDirectory ==
    /\ pc = "start"
    /\ IsDir(fs, input)
    /\ stderr' = stderr \o Banner(verbose)
                   \o IfVerbose(verbose, Line("Processing directory recursively...", <<>>, 0))
    /\ swf_count' = 0
    /\ pc' = "walk_root"
    /\ UNCHANGED <<ArgVars, FnVars, fs, stack, yielded, stdout, attempts, writes>>

\* the first iteration: WalkDir yields the input directory itself and opens it
WalkRoot ==
    /\ pc = "walk_root"
    /\ stack' = <<Opened(fs, input)>>
    /\ yielded' = {input}
    /\ pc' = "walk"
    /\ UNCHANGED <<ArgVars, FnVars, fs, swf_count, stdout, stderr, attempts, writes>>

\* an iteration on a directory: WalkDir opens it, the body does nothing
WalkDirectory ==
    /\ pc = "walk"
    /\ Trim(stack) # <<>>
    /\ LET st == Trim(stack)
       IN  \E e \in st[Len(st)].pending :
             /\ IsDir(fs, e)
             /\ stack' = Append(TopWithout(st, e), Opened(fs, e))
             /\ yielded' = yielded \cup {e}
    /\ UNCHANGED <<ArgVars, FnVars, fs, pc, swf_count, stdout, stderr, attempts, writes>>

\* an iteration on an entry the filter rejects: nothing is opened or written
WalkSkip ==
    /\ pc = "walk"
    /\ Trim(stack) # <<>>
    /\ LET st == Trim(stack)
       IN  \E e \in st[Len(st)].pending :
             /\ ~IsDir(fs, e)
             /\ ~Selected(fs, e)
             /\ stack' = TopWithout(st, e)
             /\ yielded' = yielded \cup {e}
    /\ UNCHANGED <<ArgVars, FnVars, fs, pc, swf_count, stdout, stderr, attempts, writes>>

\* an iteration on a selected file: count it, extract under catch_unwind, and
\* in the Ok arm save the output; a file the save creates in the directory being
\* read may or may not be listed by the read_dir still in progress
WalkSwf ==
    /\ pc = "walk"
    /\ Trim(stack) # <<>>
    /\ LET st == Trim(stack)
       IN  \E e \in st[Len(st)].pending :
             /\ Selected(fs, e)
             /\ yielded' = yielded \cup {e}
             /\ \E res \in ExtractOutcomes(fs[e]) :
                  LET content == IF res = "ok" THEN ExtractOutput(e, fs[e], format) ELSE <<>>
                      path == OutputPath(e, format)
                      err == stderr \o IfVerbose(verbose, Line("Found SWF file", e, 0))
                  IN  /\ swf_count' = CountAfter(swf_count, res)
                      /\ stdout' = Append(stdout, Line("Extracting metadata from", e, 0))
                      /\ attempts' = Append(attempts, Attempt(e, res, content))
                      /\ pc' = PcAfterFile(res)
                      /\ IF SavedInBatch(res)
                         THEN \E io \in SaveOutcomes(fs, path) :
                              \E listed \in (IF io # "create_fail" /\ ~Exists(fs, path)
                                             THEN BOOLEAN ELSE {FALSE}) :
                                /\ fs' = FsAfterSave(fs, path, content, io)
                                /\ stderr' = ErrAfterSave(err, path, io, verbose)
                                /\ writes' = Append(writes, WriteRec(e, path, content, io))
                                /\ stack' = IF listed THEN TopWith(TopWithout(st, e), path)
                                            ELSE TopWithout(st, e)
                         ELSE /\ stderr' = Append(err, Line("Error: Failed to extract metadata from", e, 0))
                              /\ stack' = TopWithout(st, e)
                              /\ UNCHANGED <<fs, writes>>
    /\ UNCHANGED <<ArgVars, FnVars>>

\* the walk is over: the count is reported when verbose, and main returns
Report ==
    /\ pc = "walk"
    /\ Trim(stack) = <<>>
    /\ stack' = <<>>
    /\ stderr' = stderr \o IfVerbose(verbose, Line("Processed SWF file(s)", <<>>, swf_count))
    /\ pc' = "done"
    /\ UNCHANGED <<ArgVars, FnVars, fs, yielded, swf_count, stdout, attempts, writes>>

Next ==
    \/ MainMissing
    \/ MainOther
    \/ MainSingleFile
    \/ MainDirectory
    \/ WalkRoot
    \/ WalkDirectory
    \/ WalkSkip
    \/ WalkSwf
    \/ Report

Spec == Init /\ [][Next]_vars

\* the status the process ends with
ExitCode == CASE pc = "panicked" -> 101 [] pc = "exit1" -> 1 [] OTHER -> 0

-----------------------------------------------------------------------------
(* extract_metadata's construction and format_metadata on their own: the    *)
(* header is given, the Metadata record is built, then formatted            *)

Movie_swf == <<"m", "o", "v", "i", "e", ".", "s", "w", "f">>
Test_SWF  == <<"t", "e", "s", "t", ".", "S", "W", "F">>
Abs_c_swf == <<"/", "a", "/", "b", "/", "c", ".", "s", "w", "f">>

FnPaths == {Movie_swf, Test_SWF, Abs_c_swf}

FnFormats ==
    {JsonSel, YamlSel, <<>>,
     <<"t", "e", "x", "t">>, <<"x", "m", "l">>,
     <<"J", "S", "O", "N">>, <<"Y", "a", "m", "l">>, <<"j", "s", "o", "n", "5">>,
     <<"u", "n", "k", "n", "o", "w", "n", "_", "f", "o", "r", "m", "a", "t">>}

\* stage rectangles: (min, max) in twips, well-formed and malformed
FnSpans ==
    {<<0, 16000>>, <<0, 12000>>, <<0, 0>>, <<0, 19>>, <<0, 20>>, <<0, 39>>, <<-30, 29>>,
     <<100, 0>>, <<0, -1>>, <<5, -35>>, <<-536870912, 536870911>>, <<536870911, -536870912>>}

FnFrames == {1, 100, 65535}

\* frame rates as 8.8 bits: 30.0, 23.996, 0.996, -1.0
FnRates == {7680, 6143, 255, -256}

FnInit ==
    /\ input \in FnPaths
    /\ format \in FnFormats
    /\ \E x \in FnSpans, y \in {<<0, 12000>>, <<0, 39>>, <<5, -35>>}, n \in FnFrames, r \in FnRates :
          hdr = Header(x[1], x[2], y[1], y[2], n, r)
    /\ verbose = FALSE
    /\ fs = <<>>
    /\ fs0 = <<>>
    /\ pc = "fn_start"
    /\ stack = <<>>
    /\ yielded = {}
    /\ swf_count = 0
    /\ stdout = <<>>
    /\ stderr = <<>>
    /\ attempts = <<>>
    /\ writes = <<>>
    /\ meta = NoMetadata
    /\ out = <<>>

FnRest == <<input, format, verbose, fs, fs0, stack, yielded, swf_count, stdout, stderr, attempts, writes>>

\* extract_metadata, from the parsed header to the Metadata record
FnBuild ==
    /\ pc = "fn_start"
    /\ meta' = BuildMetadata(input, hdr)
    /\ pc' = "fn_built"
    /\ UNCHANGED <<FnRest, hdr, out>>

\* format_metadata
FnFormat ==
    /\ pc = "fn_built"
    /\ out' = FormatMetadata(meta, format)
    /\ pc' = "fn_formatted"
    /\ UNCHANGED <<FnRest, hdr, meta>>

FnNext == FnBuild \/ FnFormat

FnSpec == FnInit /\ [][FnNext]_vars

-----------------------------------------------------------------------------
(* Vocabulary of the properties *)

DirectoryMode == IsDir(fs0, input)
SingleFileMode == IsFile(fs0, input)

\* p lies under directory dir
IsUnder(p, dir) ==
    Len(p) > Len(dir) + 1 /\ SubSeq(p, 1, Len(dir) + 1) = dir \o <<"/">>

\* p's name is something, a dot, and s-w-f in either case
EndsInDotSwfAnyCase(p) ==
    LET n == Len(p)
    IN  /\ n >= 5
        /\ p[n] \in {"f", "F"} /\ p[n - 1] \in {"w", "W"} /\ p[n - 2] \in {"s", "S"}
        /\ p[n - 3] = "."
        /\ p[n - 4] # "/"

AttemptsOf(p) == {i \in 1..Len(attempts) : attempts[i].path = p}
WritesFor(p) == {j \in 1..Len(writes) : writes[j].src = p}
OkAttempts == {i \in 1..Len(attempts) : attempts[i].result = "ok"}
FailedAttempts == {i \in 1..Len(attempts) : attempts[i].result = "fail"}

\* the count the verbose report gives, -1 when there is no report
ReportedCount ==
    IF stderr # <<>> /\ stderr[Len(stderr)].msg = "Processed SWF file(s)"
    THEN stderr[Len(stderr)].n ELSE -1

-----------------------------------------------------------------------------
(* C1 *)

\* the order of the places a directory run goes through
Stage(l) == CASE l = "start" -> 0 [] l = "walk_root" -> 1 [] l = "walk" -> 2 [] OTHER -> 3

C1_Safe ==
    DirectoryMode =>
        /\ pc \notin {"panicked", "exit1"}
        /\ pc # "done" => ENABLED Next
        /\ \A p \in DOMAIN fs : Cardinality(AttemptsOf(p)) <= 1
        /\ yielded \subseteq DOMAIN fs
        /\ Cardinality(DOMAIN fs) <= 2 * Cardinality(DOMAIN fs0)
        /\ pc = "done" =>
             \A p \in DOMAIN fs0 :
                (IsUnder(p, input) /\ IsFile(fs0, p) /\ EndsInDotSwfAnyCase(p))
                   => Cardinality(AttemptsOf(p)) = 1

\* every step of a directory run moves to a later place or yields an entry
\* that was not yielded before
C1_Progress ==
    DirectoryMode =>
        /\ Stage(pc') >= Stage(pc)
        /\ Stage(pc') = Stage(pc) =>
              (yielded \subseteq yielded' /\ Cardinality(yielded') = Cardinality(yielded) + 1)

\* C1: in directory mode no outcome of a file (its extraction panics, its
\* output cannot be created, the write fails, or all succeeds) ends the
\* process: it never panics or exits early, a step is always possible until the
\* final report, every step advances the walk over a bounded set of entries
\* (so the report is reached), and every selected file is attempted exactly
\* once.
C1_BatchNeverStops == [](C1_Safe) /\ [][C1_Progress]_vars

\* a finished directory run with a failed extraction and a failed save
C1_Witness ==
    /\ DirectoryMode /\ pc = "done"
    /\ FailedAttempts # {}
    /\ \E j \in 1..Len(writes) : writes[j].io = "write_fail"
    /\ \E j \in 1..Len(writes) : writes[j].io = "create_fail"

-----------------------------------------------------------------------------
(* C2 *)

C2_Inv ==
    DirectoryMode =>
        /\ \A i \in 1..Len(attempts) :
              Cardinality(WritesFor(attempts[i].path))
                 = IF attempts[i].result = "ok" THEN 1 ELSE 0
        /\ \A j \in 1..Len(writes) :
              \E i \in OkAttempts :
                 /\ attempts[i].path = writes[j].src
                 /\ writes[j].path = OutputPath(writes[j].src, format)
                 /\ writes[j].content = attempts[i].output
                 /\ writes[j].content # <<>>
        /\ Cardinality({q \in DOMAIN fs : q \notin DOMAIN fs0}) <= Cardinality(OkAttempts)

\* what the step that processes one selected file does to the file system
C2_Step ==
    (DirectoryMode /\ Len(attempts') = Len(attempts) + 1) =>
        LET a == attempts'[Len(attempts')]
            path == OutputPath(a.path, format)
        IN  /\ a.result = "fail" => (fs' = fs /\ writes' = writes)
            /\ a.result = "ok" =>
                  /\ Len(writes') = Len(writes) + 1
                  /\ \A q \in DOMAIN fs : q # path => (q \in DOMAIN fs' /\ fs'[q] = fs[q])
                  /\ DOMAIN fs' \subseteq DOMAIN fs \cup {path}
                  /\ writes'[Len(writes')].io = "ok" =>
                        (fs'[path].text = a.output /\ fs'[path].complete)
                  /\ writes'[Len(writes')].io = "create_fail" => fs' = fs

\* C2: in directory mode an output is written for a selected file exactly when
\* its extraction returned: processing a file whose extraction fails makes no
\* call of save_metadata and creates or overwrites nothing; processing one that
\* succeeds makes exactly one write attempt, touches no path but the one
\* derived from that file, and a write that succeeds leaves the formatter's
\* string as the whole content.
C2_WriteIffExtracted == [](C2_Inv) /\ [][C2_Step]_vars

\* a finished run over one valid and one corrupt file: one output file
C2_Witness ==
    /\ DirectoryMode /\ pc = "done"
    /\ Cardinality(OkAttempts) = 1 /\ Cardinality(FailedAttempts) = 1
    /\ Len(writes) = 1 /\ writes[1].io = "ok"
    /\ Cardinality(DOMAIN fs) = Cardinality(DOMAIN fs0) + 1

-----------------------------------------------------------------------------
(* C3 *)

\* C3 as claimed: the reported count is the number of selected files whose
\* extraction succeeded
C3_CountsSuccessesOnly ==
    (DirectoryMode /\ verbose /\ pc = "done") => ReportedCount = Cardinality(OkAttempts)

\* C3, amended: in a verbose directory run the count reported at the end is
\* the number of selected files, counted when they are found, whether their
\* extraction succeeded or failed.
C3_CountsSelectedFiles ==
    (DirectoryMode /\ verbose /\ pc = "done") =>
        /\ ReportedCount = Len(attempts)
        /\ ReportedCount = Cardinality(OkAttempts) + Cardinality(FailedAttempts)

\* one valid and one corrupt file: the report says 2
C3_Witness ==
    /\ DirectoryMode /\ verbose /\ pc = "done"
    /\ Cardinality(OkAttempts) = 1 /\ Cardinality(FailedAttempts) = 1
    /\ ReportedCount = 2

-----------------------------------------------------------------------------
(* C4 *)

\* p ends with suffix
EndsWith(p, suffix) ==
    Len(p) >= Len(suffix) /\ SubSeq(p, Len(p) - Len(suffix) + 1, Len(p)) = suffix

\* the general rule: the output is a prefix of the input followed by
\* ".swf.F", and what was cut from the input is nothing (the name had no
\* extension) or a dot and a dotless extension that does not start the name
ExtensionReplaced(src, path, f) ==
    LET suffix == <<".">> \o SwfDot(f)
        base == SubSeq(path, 1, Len(path) - Len(suffix))
        cut == SubSeq(src, Len(base) + 1, Len(src))
    IN  /\ EndsWith(path, suffix)
        /\ Len(base) <= Len(src) /\ SubSeq(src, 1, Len(base)) = base
        /\ base # <<>> /\ base[Len(base)] # "/"
        /\ \A i \in 1..Len(cut) : cut[i] # "/"
        /\ \/ /\ cut = <<>>
              /\ \A i \in 1..Len(base) :
                    base[i] = "." => \/ \E k \in i..Len(base) : base[k] = "/"
                                     \/ i = 1
                                     \/ base[i - 1] = "/"
           \/ cut # <<>> /\ cut[1] = "." /\ \A i \in 2..Len(cut) : cut[i] # "."

-----------------------------------------------------------------------------
(* C5 *)

\* C5: within one directory run, distinct selected inputs are written to
\* distinct output paths
C5_DistinctOutputPaths ==
    DirectoryMode =>
        \A i, j \in 1..Len(writes) :
            writes[i].src # writes[j].src => writes[i].path # writes[j].path

-----------------------------------------------------------------------------
(* C6 *)

-----------------------------------------------------------------------------
(* C7 *)

IsJsonEncoding(o) ==
    /\ Len(o) = 13
    /\ o[1] = "{" /\ o[2] = "\"file_name\":" /\ o[5] = "\"stage_size\":"
    /\ o[8] = "\"no_of_frames\":" /\ o[11] = "\"frame_rate\":" /\ o[13] = "}"

IsYamlEncoding(o) ==
    /\ Len(o) = 17
    /\ o[1] = "file_name: " /\ o[4] = "stage_size:" /\ o[6] = "- " /\ o[9] = "- "
    /\ o[12] = "no_of_frames: " /\ o[15] = "frame_rate: "

IsTextLayout(o) ==
    /\ Len(o) = 11
    /\ o[1] = "File: " /\ o[4] = "Stage Size: "
    /\ o[7] = "Number of Frames: " /\ o[10] = "Frame Rate: "
    /\ o[3] = "\n" /\ o[6] = "\n" /\ o[9] = "\n"

\* C7: format_metadata returns a string for every selector: exactly json gives
\* the JSON encoding, exactly yaml the YAML encoding, and every other selector
\* (xml, text, unknown_format, JSON, the empty string) the four-line text
\* layout File / Stage Size / Number of Frames / Frame Rate, in that order.
C7_FormatTotal ==
    pc = "fn_formatted" =>
        /\ out # <<>>
        /\ format = <<"j", "s", "o", "n">> => IsJsonEncoding(out)
        /\ format = <<"y", "a", "m", "l">> => IsYamlEncoding(out)
        /\ format \notin {<<"j", "s", "o", "n">>, <<"y", "a", "m", "l">>} => IsTextLayout(out)

\* the selector JSON in capitals gives the text layout
C7_Witness ==
    /\ pc = "fn_formatted" /\ format = <<"J", "S", "O", "N">>
    /\ IsTextLayout(out) /\ out[11] = "30"

-----------------------------------------------------------------------------
(* C8 *)

\* C8: in single-file mode a failed extraction ends the process abnormally,
\* with a non-zero status, before save_metadata is called: nothing is written
\* and the file system is as it was; a save is only ever made after a
\* successful extraction.
C8_SingleFileFailsBeforeWrite ==
    (SingleFileMode /\ pc # "start") =>
        /\ Len(attempts) = 1 /\ attempts[1].path = input
        /\ attempts[1].result = "fail" =>
              /\ pc = "panicked" /\ ExitCode # 0
              /\ writes = <<>> /\ fs = fs0
        /\ writes # <<>> => attempts[1].result = "ok"
        /\ attempts[1].result = "ok" => (pc = "done" /\ ExitCode = 0 /\ Len(writes) = 1)

\* a single-file run on a corrupt file has panicked
C8_Witness ==
    /\ SingleFileMode /\ pc = "panicked"
    /\ fs0[input].data = "corrupt"
    /\ attempts # <<>> /\ attempts[1].result = "fail"

-----------------------------------------------------------------------------
(* C9 *)

\* the component is the twip difference over 20, truncated; 0 when max < min
TruncatedPixels(max, min, px) ==
    /\ max >= min => (20 * px <= max - min /\ max - min < 20 * px + 20)
    /\ max < min => px = 0

\* C9: each stage_size component is the twip difference divided by 20 and
\* truncated, never rounded up, and is 0 for a malformed rectangle whose max
\* is below its min.
C9_StageSizeTruncates ==
    pc \in {"fn_built", "fn_formatted"} =>
        /\ TruncatedPixels(hdr.x_max, hdr.x_min, meta.stage_size[1])
        /\ TruncatedPixels(hdr.y_max, hdr.y_min, meta.stage_size[2])

\* a width of 39 twips gives 1 pixel, a malformed height gives 0
C9_Witness ==
    /\ pc = "fn_built"
    /\ hdr.x_max - hdr.x_min = 39 /\ meta.stage_size[1] = 1
    /\ hdr.y_max < hdr.y_min /\ meta.stage_size[2] = 0

-----------------------------------------------------------------------------
(* C10 *)

\* C10: in directory mode no output the run writes passes the selection
\* filter, and every file the run attempts was in the tree when it started
C10_OutputsNeverSelected ==
    DirectoryMode =>
        /\ \A j \in 1..Len(writes) :
              writes[j].io # "create_fail" => ~Selected(fs, writes[j].path)
        /\ \A i \in 1..Len(attempts) : attempts[i].path \in DOMAIN fs0

=============================================================================
